---- MODULE Spec2Model ----
(***************************************************************************)
(* Model of the useForm hook (src/index.ts): the field store and the error *)
(* store kept by two reducers, the validation pass run as an effect after  *)
(* every change of the field store, and the derived formInvalid flag.      *)
(*                                                                         *)
(* Input values are JavaScript strings; they are modelled as sequences of  *)
(* one-character strings so that length, trimming and the format checks    *)
(* are computed.  Error messages and keys are never taken apart and stay   *)
(* TLA+ strings.  An object is a function on the set of its own property   *)
(* names; an absent optional property is absent from the DOMAIN.           *)
(***************************************************************************)
EXTENDS Integers, Sequences, FiniteSets, TLC

VARIABLES formState, errorState, formInvalid, loading, didAttemptSubmit,
          globalFormError, effectPending, errorQueue, crashed, lastAction,
          passes, calls, inHandler, nameQuantifier

vars == <<formState, errorState, formInvalid, loading, didAttemptSubmit,
          globalFormError, effectPending, errorQueue, crashed, lastAction,
          passes, calls, inHandler, nameQuantifier>>

(***************************************************************************)
(* Bounds of the model.                                                    *)
(***************************************************************************)
\* largest number of whitespace characters put on each side of an input
MaxPad == 1
\* largest number of validation passes counted after one field-store update
MaxPasses == 2

(***************************************************************************)
(* Program constants.                                                      *)
(***************************************************************************)
PasswordMin == 6
PasswordMax == 128
\* limits of validator.isEmail (whole address, local part, domain, one
\* domain label)
EmailMax == 254
EmailUserMax == 64
EmailDomainMax == 254
FqdnLabelMax == 63
\* shortest top-level domain validator.isFQDN accepts
TldMin == 2
TldPunycodePrefix == <<"x", "n">>

Null == "null"

(***************************************************************************)
(* Strings.                                                                *)
(***************************************************************************)
\* [a-z] under the flag i
Letters ==
    {"a", "b", "c", "d", "e", "f", "g", "h", "i", "j", "k", "l", "m",
     "n", "o", "p", "q", "r", "s", "t", "u", "v", "w", "x", "y", "z",
     "A", "B", "C", "D", "E", "F", "G", "H", "I", "J", "K", "L", "M",
     "N", "O", "P", "Q", "R", "S", "T", "U", "V", "W", "X", "Y", "Z"}
\* \d
Digits == {"0", "1", "2", "3", "4", "5", "6", "7", "8", "9"}
\* the marks validator.isEmail accepts in an unquoted local part (the
\* pattern has the backquote as well, a character no string of this module
\* can hold)
EmailUserMarks ==
    {"!", "#", "$", "%", "&", "'", "*", "+", "-", "/", "=", "?", "^", "_",
     "{", "|", "}", "~"}
\* the printable characters in none of the classes above
OtherPrintable ==
    {"\"", "(", ")", ",", ".", ":", ";", "<", ">", "@", "[", "\\", "]"}
Whitespace == {" ", "\t"}

Rep(c, n) == [i \in 1..n |-> c]

\* String.prototype.trim: drop the whitespace at both ends
RECURSIVE TrimStart(_)
TrimStart(s) ==
    IF s # <<>> /\ Head(s) \in Whitespace THEN TrimStart(Tail(s)) ELSE s

RECURSIVE TrimEnd(_)
TrimEnd(s) ==
    IF s # <<>> /\ s[Len(s)] \in Whitespace
    THEN TrimEnd(SubSeq(s, 1, Len(s) - 1))
    ELSE s

TrimStartOnly(s) == TrimStart(s)

Trim(s) == TrimEnd(TrimStart(s))

\* String.prototype.split(sep): the pieces between the occurrences of sep
Split(s, sep) ==
    LET at == SelectSeq([i \in 1..Len(s) |-> i], LAMBDA i : s[i] = sep)
        cuts == <<0>> \o at \o <<Len(s) + 1>>
    IN  [n \in 1..(Len(at) + 1) |-> SubSeq(s, cuts[n] + 1, cuts[n + 1] - 1)]

\* Array.prototype.join(sep)
RECURSIVE Join(_, _)
Join(parts, sep) ==
    IF parts = <<>> THEN <<>>
    ELSE IF Len(parts) = 1 THEN parts[1]
    ELSE parts[1] \o <<sep>> \o Join(Tail(parts), sep)

AllIn(s, chars) == \A i \in 1..Len(s) : s[i] \in chars

isLengthBelowMax(str, min, max) == Len(str) >= min /\ Len(str) < max

\* validator.isLength(str, {min, max}); every character of the model's
\* alphabet is one UTF-16 unit, so the length is the number of characters
isLength(str, min, max) == Len(str) >= min /\ Len(str) <= max

\* the last label of a domain: two or more letters, or the prefix of an
\* internationalised label ("xn", in either case) and two or more letters,
\* digits or hyphens
isTLD(tld) ==
    \/ Len(tld) >= TldMin /\ AllIn(tld, Letters)
    \/ /\ Len(tld) >= Len(TldPunycodePrefix) + TldMin
       /\ tld[1] \in {"x", "X"}
       /\ tld[2] \in {"n", "N"}
       /\ AllIn(SubSeq(tld, 3, Len(tld)), Letters \cup Digits \cup {"-"})

\* validator.isFQDN with the options isEmail passes (require_tld)
isFQDN(domain) ==
    LET parts == Split(domain, ".")
        tld == parts[Len(parts)]
    IN  /\ Len(parts) >= 2
        /\ isTLD(tld)
        /\ \A i \in 1..Len(parts) :
              /\ Len(parts[i]) >= 1
              /\ Len(parts[i]) <= FqdnLabelMax
              /\ AllIn(parts[i], Letters \cup Digits \cup {"-"})
              /\ parts[i][1] # "-"
              /\ parts[i][Len(parts[i])] # "-"

\* the characters validator.isEmail accepts inside a quoted local part
\* as they are, and those it accepts after a backslash
QuotedChars ==
    (Letters \cup Digits \cup EmailUserMarks \cup OtherPrintable \cup Whitespace)
        \ {"\"", "\\"}
EscapedChars ==
    Letters \cup Digits \cup EmailUserMarks \cup OtherPrintable \cup Whitespace

\* the pattern of the quoted local part: any number of accepted characters
\* and of backslash pairs
RECURSIVE quotedEmailUser(_)
quotedEmailUser(user) ==
    IF user = <<>> THEN TRUE
    ELSE IF Head(user) = "\\"
    THEN /\ Len(user) >= 2
         /\ user[2] \in EscapedChars
         /\ quotedEmailUser(SubSeq(user, 3, Len(user)))
    ELSE Head(user) \in QuotedChars /\ quotedEmailUser(Tail(user))

\* str.length > defaultMaxEmailLength is refused
isEmailLength(str) == Len(str) <= EmailMax

\* validator.isEmail with its default options: the text after the last "@"
\* is the domain, the text before it the local part; a local part that
\* starts with a double quote is tested without its first and last character
isEmail(str) ==
    LET parts == Split(str, "@")
        domain == parts[Len(parts)]
        user == Join(SubSeq(parts, 1, Len(parts) - 1), "@")
        userParts == Split(user, ".")
    IN  /\ isEmailLength(str)
        /\ Len(user) <= EmailUserMax
        /\ Len(domain) <= EmailDomainMax
        /\ isFQDN(domain)
        /\ IF user # <<>> /\ user[1] = "\""
           THEN quotedEmailUser(SubSeq(user, 2, Len(user) - 1))
           ELSE \A i \in 1..Len(userParts) :
                   /\ Len(userParts[i]) >= 1
                   /\ AllIn(userParts[i], Letters \cup Digits \cup EmailUserMarks)

(***************************************************************************)
(* Objects.                                                                *)
(***************************************************************************)
\* the object without properties, also what spreading undefined yields
EmptyObject == [k \in {} |-> k]

\* { ...obj, [k]: v }
Assign(obj, k, v) == [x \in DOMAIN obj \cup {k} |-> IF x = k THEN v ELSE obj[x]]

\* { ...state[k] }: the properties of state[k], none when state[k] is undefined
SpreadOf(state, k) == IF k \in DOMAIN state THEN state[k] ELSE EmptyObject

\* the order in which Object.keys lists the keys the model uses: the order
\* in which every initial configuration writes them (a key added by a later
\* dispatch is listed after the initial ones, and the pass stops at it)
KeyOrder ==
    <<"", "email", "password", "confirm", "nick", "firstName", "lastName">>

FieldNames == {KeyOrder[i] : i \in 1..Len(KeyOrder)}

ObjectKeys(obj) ==
    LET initial == SelectSeq(KeyOrder,
                       LAMBDA k : k \in DOMAIN obj /\ "validation" \in DOMAIN obj[k])
        added == SelectSeq(KeyOrder,
                       LAMBDA k : k \in DOMAIN obj /\ "validation" \notin DOMAIN obj[k])
    IN  initial \o added

(***************************************************************************)
(* The reducers.                                                           *)
(***************************************************************************)
errorsReducer(state, action) ==
    IF action.type = "UPDATE_ERROR"
    THEN Assign(state, action.field, action.error)
    ELSE state

\* BLUR_INPUT marking every field of the form instead of action.field
fieldsReducerBlursAll(state, action) ==
    CASE action.type = "UPDATE_VALUE" ->
            Assign(state, action.field,
                   Assign(SpreadOf(state, action.field), "value", Trim(action.value)))
      [] action.type = "BLUR_INPUT" ->
            [k \in DOMAIN state |-> Assign(state[k], "blurred", TRUE)]
      [] OTHER -> state

\* an unknown action taken for a reset of the blurred flags
fieldsReducerDefaultResets(state, action) ==
    CASE action.type = "UPDATE_VALUE" ->
            Assign(state, action.field,
                   Assign(SpreadOf(state, action.field), "value", Trim(action.value)))
      [] action.type = "BLUR_INPUT" ->
            Assign(state, action.field,
                   Assign(SpreadOf(state, action.field), "blurred", TRUE))
      [] OTHER -> [k \in DOMAIN state |-> Assign(state[k], "blurred", FALSE)]

\* BLUR_INPUT that also empties the value of the field
fieldsReducerBlurClearsValue(state, action) ==
    CASE action.type = "UPDATE_VALUE" ->
            Assign(state, action.field,
                   Assign(SpreadOf(state, action.field), "value", Trim(action.value)))
      [] action.type = "BLUR_INPUT" ->
            Assign(state, action.field,
                   Assign(Assign(SpreadOf(state, action.field), "blurred", TRUE),
                          "value", <<>>))
      [] OTHER -> state

\* UPDATE_VALUE that marks the field as not blurred
fieldsReducerUpdateUnblurs(state, action) ==
    CASE action.type = "UPDATE_VALUE" ->
            Assign(state, action.field,
                   Assign(Assign(SpreadOf(state, action.field), "value",
                                 Trim(action.value)),
                          "blurred", FALSE))
      [] action.type = "BLUR_INPUT" ->
            Assign(state, action.field,
                   Assign(SpreadOf(state, action.field), "blurred", TRUE))
      [] OTHER -> state

fieldsReducer(state, action) ==
    CASE action.type = "UPDATE_VALUE" ->
            Assign(state, action.field,
                   Assign(SpreadOf(state, action.field), "value", Trim(action.value)))
      [] action.type = "BLUR_INPUT" ->
            Assign(state, action.field,
                   Assign(SpreadOf(state, action.field), "blurred", TRUE))
      [] OTHER -> state

\* UPDATE_VALUE written as an assignment into the object it was given
ReturnsNewObjectOnBlur(action) == action.type = "BLUR_INPUT"

\* the effect with the error store among its dependencies
EffectDepsWithErrors == {"formState", "errorState"}

\* useEffect(validate, [formState, validate]): validate is memoized on
\* [formState], so the effect runs again after a render only when that render
\* committed a new formState object
EffectDeps == {"formState"}

\* useReducer re-renders unless the reducer returned the very object it was
\* given; fieldsReducer builds a new object in both of its cases
ReturnsNewObject(action) == action.type \in {"UPDATE_VALUE", "BLUR_INPUT"}

(***************************************************************************)
(* The validation pass.                                                    *)
(***************************************************************************)
dispatchValid(fieldName) ==
    [type |-> "UPDATE_ERROR", field |-> fieldName, error |-> ""]

dispatchError(fieldName, error) ==
    [type |-> "UPDATE_ERROR", field |-> fieldName, error |-> error]

IsOptionalIgnored(field) == FALSE

\* validation.optional is truthy
IsOptional(field) ==
    "optional" \in DOMAIN field.validation /\ field.validation.optional = TRUE

\* validation.customError || fallback
CustomErrorOr(field, fallback) ==
    IF "customError" \in DOMAIN field.validation /\ field.validation.customError # ""
    THEN field.validation.customError
    ELSE fallback

ValidationType(field) ==
    IF "type" \in DOMAIN field.validation THEN field.validation.type ELSE "undefined"

\* the comparison skipped when there is no field keyed "password"
DiffersFromPasswordIfPresent(state, field) ==
    /\ "password" \in DOMAIN state
    /\ "value" \in DOMAIN state["password"]
    /\ field.value # state["password"].value

\* formState["password"]?.value differs from the field's value
DiffersFromPassword(state, field) ==
    \/ "password" \notin DOMAIN state
    \/ "value" \notin DOMAIN state["password"]
    \/ field.value # state["password"].value

\* the two copies of the hook differ in the quantifier that ends the name
\* patterns: /^[a-z]+[a-z .'-]+$/i in src/index.ts, /^[a-z]+[a-z .'-]*$/i
\* in src/unnamed/part_000
NameQuantifiers == {"+", "*"}

\* the least length a name pattern matches: the leading [a-z]+ takes one
\* letter, the class that follows one more character under "+"
NameMinLength == IF nameQuantifier = "+" THEN 2 ELSE 1

\* /^[a-z]+[a-z .'-]+$/i and /^[a-z]+[a-z ,.'-]+$/i: a letter, then the
\* characters the quantifier asks for, each a letter or one of the listed
\* marks
FirstNameMarks == {" ", ".", "'", "-"}
LastNameMarks == {" ", ",", ".", "'", "-"}

MatchesName(value, marks) ==
    /\ Len(value) >= NameMinLength
    /\ value[1] \in Letters
    /\ \A i \in 2..Len(value) : value[i] \in Letters \cup marks

FirstNameFormatError ==
    "Must start with an alpha character, and consist of alpha and \" ' \", \" . \", or \" - \" characters"

LastNameFormatError ==
    "Must start with an alpha character, and consist of alpha and \" ' \", \" . \", \" , \", or \" - \" characters"

\* the custom message used for the empty value as well
validateEmailCustomWhenEmpty(state, fieldName) ==
    LET field == state[fieldName]
    IN  IF Len(field.value) = 0
        THEN dispatchError(fieldName,
                 CustomErrorOr(field, "Please provide an email"))
        ELSE IF ~isEmail(field.value)
        THEN dispatchError(fieldName,
                 CustomErrorOr(field, "Please provide a valid email"))
        ELSE dispatchValid(fieldName)

\* case "email"
validateEmail(state, fieldName) ==
    LET field == state[fieldName]
    IN  IF Len(field.value) = 0
        THEN dispatchError(fieldName, "Please provide an email")
        ELSE IF ~isEmail(field.value)
        THEN dispatchError(fieldName,
                 CustomErrorOr(field, "Please provide a valid email"))
        ELSE dispatchValid(fieldName)

\* case "password"
validatePassword(state, fieldName) ==
    LET field == state[fieldName]
    IN  IF isLength(field.value, PasswordMin, PasswordMax)
        THEN dispatchValid(fieldName)
        ELSE dispatchError(fieldName,
                 CustomErrorOr(field,
                     "Please provide a password of at least 6 characters"))

\* case "passwordConfirmation"
validatePasswordConfirmation(state, fieldName) ==
    LET field == state[fieldName]
    IN  IF DiffersFromPassword(state, field)
        THEN dispatchError(fieldName,
                 CustomErrorOr(field, "Passwords do not match"))
        ELSE dispatchValid(fieldName)

\* case "firstName"
validateFirstName(state, fieldName) ==
    LET field == state[fieldName]
    IN  IF Len(field.value) = 0
        THEN dispatchError(fieldName,
                 CustomErrorOr(field, "Please provide a first name."))
        ELSE IF ~MatchesName(field.value, FirstNameMarks)
        THEN dispatchError(fieldName, CustomErrorOr(field, FirstNameFormatError))
        ELSE dispatchValid(fieldName)

\* case "lastName"
validateLastName(state, fieldName) ==
    LET field == state[fieldName]
    IN  IF Len(field.value) = 0
        THEN dispatchError(fieldName,
                 CustomErrorOr(field, "Please provide a last name."))
        ELSE IF ~MatchesName(field.value, LastNameMarks)
        THEN dispatchError(fieldName, CustomErrorOr(field, LastNameFormatError))
        ELSE dispatchValid(fieldName)

\* the switch on validation.type
validateByType(state, fieldName) ==
    LET type == ValidationType(state[fieldName])
    IN  CASE type = "email" -> validateEmail(state, fieldName)
          [] type = "password" -> validatePassword(state, fieldName)
          [] type = "passwordConfirmation" ->
                validatePasswordConfirmation(state, fieldName)
          [] type = "firstName" -> validateFirstName(state, fieldName)
          [] type = "lastName" -> validateLastName(state, fieldName)
          [] OTHER -> dispatchValid(fieldName)

\* the one dispatch the forEach callback makes for fieldName
validateField(state, fieldName) ==
    IF IsOptional(state[fieldName])
    THEN dispatchValid(fieldName)
    ELSE validateByType(state, fieldName)

\* reading .optional of an undefined validation record raises a TypeError
Throws(state, fieldName) == "validation" \notin DOMAIN state[fieldName]

ValidateThrows(state) == \E k \in DOMAIN state : Throws(state, k)

\* the dispatches of one pass, in the order of Object.keys, up to the first
\* field the callback throws on
validate(state) ==
    LET keys == ObjectKeys(state)
        ok == SelectSeq(keys, LAMBDA k : ~Throws(state, k))
    IN  [i \in 1..Len(ok) |-> validateField(state, ok[i])]

\* only the first dispatch of a pass reaching the error store
ApplyFirstErrorAction(state, queue) ==
    IF queue = <<>> THEN state ELSE errorsReducer(state, Head(queue))

\* the error store after the queued dispatches went through errorsReducer
RECURSIVE ApplyErrorActions(_, _)
ApplyErrorActions(state, queue) ==
    IF queue = <<>> THEN state
    ELSE ApplyErrorActions(errorsReducer(state, Head(queue)), Tail(queue))

\* the useMemo callback of formInvalid:
\* !!Object.keys(errorState).find(key => !!errorState[key] && !optional).
\* find returns the first key that passes, or undefined; !! is applied to
\* what find returns, and the empty key is as falsy as undefined
ComputeFormInvalid(fields, errors) ==
    LET keys == SelectSeq(KeyOrder, LAMBDA key : key \in DOMAIN errors)
        found == SelectSeq(keys,
                     LAMBDA key : errors[key] # "" /\ ~IsOptional(fields[key]))
    IN  found # <<>> /\ found[1] # ""

(***************************************************************************)
(* Inputs: the initial configurations and the values a caller dispatches.  *)
(***************************************************************************)
ValidEmail == <<"a", "@", "a", ".", "a", "a">>

\* the texts typed into the inputs, before any surrounding whitespace
\* one character short of a password, not an email, a name made of a
\* letter and every mark of the first-name pattern
ShortName == <<"a", " ", "'", "-", ".">>

Cores ==
    { <<>>,
      ValidEmail,
      ShortName,
      Rep("a", PasswordMax),
      Rep("a", PasswordMax + 1),
      <<"a">>,
      <<"a", ",", "B">> }

\* a text of whitespace only
Blank == <<" ", "\t">>

\* the values dispatched: the texts, the blank one, and the email typed
\* with whitespace around it
InputValues ==
    Cores \cup {Blank} \cup
    { Rep(" ", n) \o ValidEmail \o Rep("\t", n) : n \in 1..MaxPad }

InitialStates ==
    { \* the sign-up form of the README
      [ email    |-> [value |-> <<>>, validation |-> [type |-> "email"]],
        password |-> [value |-> <<>>, validation |-> [type |-> "password"]] ],
      \* custom messages, a field blurred from the start, untrimmed value
      [ email    |-> [value |-> <<" ">> \o ValidEmail, blurred |-> TRUE,
                      validation |-> [type |-> "email", customError |-> "Bad email",
                                      optional |-> FALSE]],
        password |-> [value |-> Rep("a", PasswordMin), blurred |-> FALSE,
                      validation |-> [type |-> "password",
                                      customError |-> "Bad password"]] ],
      \* a password and its confirmation
      [ password |-> [value |-> <<>>, validation |-> [type |-> "password"]],
        confirm  |-> [value |-> <<>>,
                      validation |-> [type |-> "passwordConfirmation"]] ],
      \* a confirmation without any field keyed "password", an optional email
      [ confirm  |-> [value |-> <<>>,
                      validation |-> [type |-> "passwordConfirmation",
                                      customError |-> ""]],
        nick     |-> [value |-> <<>>,
                      validation |-> [type |-> "email", optional |-> TRUE]] ],
      \* an optional confirmation beside a password
      [ password |-> [value |-> Rep("a", PasswordMin),
                      validation |-> [type |-> "password"]],
        confirm  |-> [value |-> <<>>,
                      validation |-> [type |-> "passwordConfirmation",
                                      customError |-> "No match",
                                      optional |-> TRUE]] ],
      \* names
      [ firstName |-> [value |-> <<>>, validation |-> [type |-> "firstName"]],
        lastName  |-> [value |-> <<>>, validation |-> [type |-> "lastName"]] ],
      \* one required field under the empty key
      [ current \in {""} |->
            [value |-> <<>>, validation |-> [type |-> "email"]] ],
      \* a field that is not validated, an optional password
      [ email     |-> [value |-> <<>>, validation |-> [type |-> "none"]],
        nick      |-> [value |-> <<>>,
                       validation |-> [type |-> "password", optional |-> TRUE]] ] }

\* the actions a caller dispatches on the field store: the two kinds of
\* FormAction on the keys the form was initialised with, an UPDATE_VALUE on
\* the key "password" (which some forms do not have), and an action of a
\* kind fieldsReducer does not know
FormActions(keys) ==
    [type : {"UPDATE_VALUE"}, field : keys, value : InputValues]
        \cup [type : {"UPDATE_VALUE"}, field : {"password"}, value : {<<>>}]
        \cup [type : {"BLUR_INPUT"}, field : keys]
        \cup [type : {"RESET"}]

\* the same with values that need no trimming
PlainActions(keys) ==
    {a \in FormActions(keys) :
        a.type = "UPDATE_VALUE" => a.value \in {<<>>, ValidEmail}}

\* the keys of the initial state: the error store is built from them and no
\* action adds an entry to it
InitialKeys == DOMAIN errorState

\* the two copies of the hook are told apart on the forms that have a name
\* field; on the other forms they are the same program
HasNameField(state) ==
    \E k \in DOMAIN state : state[k].validation.type \in {"firstName", "lastName"}

NoAction == [type |-> "@@init"]

GlobalErrors == {Null, "Network error"}

(***************************************************************************)
(* The hook.                                                               *)
(***************************************************************************)
\* a hook that does not validate on mount
InitWithoutEffect ==
    \E initialState \in InitialStates, quantifier \in NameQuantifiers :
        /\ formState = initialState
        /\ errorState = [current \in DOMAIN initialState |-> ""]
        /\ formInvalid = FALSE
        /\ loading = FALSE
        /\ didAttemptSubmit = FALSE
        /\ globalFormError = Null
        /\ effectPending = FALSE
        /\ errorQueue = <<>>
        /\ crashed = FALSE
        /\ lastAction = NoAction
        /\ passes = 0
        /\ calls = "none"
        /\ inHandler = FALSE
        /\ nameQuantifier =
              IF HasNameField(initialState) THEN quantifier ELSE "+"

\* the first render: useState and useReducer initial values; the effect
\* that validates is scheduled by every render that commits a new formState
Init ==
    \E initialState \in InitialStates, quantifier \in NameQuantifiers :
        /\ formState = initialState
        /\ errorState = [current \in DOMAIN initialState |-> ""]
        /\ formInvalid = ComputeFormInvalid(initialState,
                                            [current \in DOMAIN initialState |-> ""])
        /\ loading = FALSE
        /\ didAttemptSubmit = FALSE
        /\ globalFormError = Null
        /\ effectPending = TRUE
        /\ errorQueue = <<>>
        /\ crashed = FALSE
        /\ lastAction = NoAction
        /\ passes = 0
        /\ calls = "none"
        /\ inHandler = FALSE
        /\ nameQuantifier =
              IF HasNameField(initialState) THEN quantifier ELSE "+"

\* the UPDATE_ERROR actions a render finds queued: React runs an effect
\* that still waits before it renders again, so the dispatches of that pass
\* are among them
QueuedAtRender ==
    IF effectPending THEN validate(formState) ELSE errorQueue

\* a first call that also clears the global error
DispatchFormActionClearsGlobalError(action) ==
    /\ ~crashed
    /\ IF effectPending /\ ValidateThrows(formState)
       THEN /\ crashed' = TRUE
            /\ effectPending' = FALSE
            /\ errorQueue' = <<>>
            /\ passes' = passes + 1
            /\ inHandler' = FALSE
            /\ UNCHANGED <<formState, errorState, formInvalid, lastAction,
                           calls, globalFormError>>
       ELSE /\ formState' = fieldsReducer(formState, action)
            /\ errorState' = ApplyErrorActions(errorState, QueuedAtRender)
            /\ formInvalid' = ComputeFormInvalid(formState', errorState')
            /\ errorQueue' = <<>>
            /\ effectPending' =
                  ("formState" \in EffectDeps /\ ReturnsNewObject(action))
            /\ passes' = IF ReturnsNewObject(action) THEN 0
                         ELSE IF effectPending THEN passes + 1 ELSE passes
            /\ lastAction' = action
            /\ calls' = "one"
            /\ inHandler' = TRUE
            /\ globalFormError' = Null
            /\ crashed' = FALSE
    /\ UNCHANGED <<loading, didAttemptSubmit, nameQuantifier>>

\* the first call of dispatchFormAction that a handler of the caller makes.
\* The call only queues its action: useReducer runs the queued actions
\* through fieldsReducer, in the order of the calls, in the one render React
\* makes when the handler has returned, and that render also takes the
\* error updates that wait.  The state after the call is the one that
\* render shows if the handler returns now; inHandler says that it may go
\* on instead.  Nothing in the hook holds a call back; when the effect still
\* waits React runs it before the render, and a pass that throws unmounts
\* the hook.
DispatchFormAction(action) ==
    /\ ~crashed
    /\ IF effectPending /\ ValidateThrows(formState)
       THEN /\ crashed' = TRUE
            /\ effectPending' = FALSE
            /\ errorQueue' = <<>>
            /\ passes' = passes + 1
            /\ inHandler' = FALSE
            /\ UNCHANGED <<formState, errorState, formInvalid, lastAction,
                           calls>>
       ELSE /\ formState' = fieldsReducer(formState, action)
            /\ errorState' = ApplyErrorActions(errorState, QueuedAtRender)
            /\ formInvalid' = ComputeFormInvalid(formState', errorState')
            /\ errorQueue' = <<>>
            /\ effectPending' =
                  ("formState" \in EffectDeps /\ ReturnsNewObject(action))
            /\ passes' = IF ReturnsNewObject(action) THEN 0
                         ELSE IF effectPending THEN passes + 1 ELSE passes
            /\ lastAction' = action
            /\ calls' = "one"
            /\ inHandler' = TRUE
            /\ crashed' = FALSE
    /\ UNCHANGED <<loading, didAttemptSubmit, globalFormError, nameQuantifier>>

\* a further call of dispatchFormAction by the handler that is running: the
\* action is queued behind the earlier ones, so the render that follows the
\* handler shows the field store with this action applied as well; no
\* render and no effect has run since the first call.  A handler may make
\* any number of calls.
DispatchFormActionAgain(action) ==
    /\ ~crashed
    /\ inHandler
    /\ formState' = fieldsReducer(formState, action)
    /\ formInvalid' = ComputeFormInvalid(formState', errorState)
    /\ effectPending' =
          (effectPending \/ ("formState" \in EffectDeps /\ ReturnsNewObject(action)))
    /\ passes' = IF ReturnsNewObject(action) THEN 0 ELSE passes
    /\ lastAction' = action
    /\ calls' = "several"
    /\ UNCHANGED <<errorState, errorQueue, crashed, inHandler, loading,
                   didAttemptSubmit, globalFormError, nameQuantifier>>

\* an effect that is scheduled again by its own run
ValidateEffectRunsAgain ==
    /\ effectPending
    /\ ~crashed
    /\ passes < MaxPasses
    /\ passes' = passes + 1
    /\ effectPending' = TRUE
    /\ inHandler' = FALSE
    /\ IF ValidateThrows(formState)
       THEN crashed' = TRUE /\ errorQueue' = <<>>
       ELSE crashed' = FALSE /\ errorQueue' = validate(formState)
    /\ UNCHANGED <<formState, errorState, formInvalid, loading,
                   didAttemptSubmit, globalFormError, lastAction, calls,
                   nameQuantifier>>

\* useEffect(validate, [formState, validate]): the pass over the committed
\* field store, after the handler has returned and React has rendered; its
\* dispatches wait for the next render
ValidateEffect ==
    /\ effectPending
    /\ ~crashed
    /\ passes < MaxPasses
    /\ passes' = passes + 1
    /\ effectPending' = FALSE
    /\ inHandler' = FALSE
    /\ IF ValidateThrows(formState)
       THEN crashed' = TRUE /\ errorQueue' = <<>>
       ELSE crashed' = FALSE /\ errorQueue' = validate(formState)
    /\ UNCHANGED <<formState, errorState, formInvalid, loading,
                   didAttemptSubmit, globalFormError, lastAction, calls,
                   nameQuantifier>>

\* the render after the pass when no handler has run meanwhile: the queued
\* UPDATE_ERROR actions go through errorsReducer and formInvalid is
\* recomputed
RenderErrors ==
    /\ ~crashed
    /\ errorQueue # <<>>
    /\ errorState' = ApplyErrorActions(errorState, errorQueue)
    /\ formInvalid' = ComputeFormInvalid(formState, errorState')
    /\ errorQueue' = <<>>
    /\ effectPending' = ("errorState" \in EffectDeps)
    /\ UNCHANGED <<formState, loading, didAttemptSubmit, globalFormError,
                   crashed, lastAction, passes, calls, inHandler,
                   nameQuantifier>>

\* the three setters are the ones useState returned: a call is accepted
\* whenever the hook is mounted
SetLoading(b) ==
    /\ ~crashed
    /\ loading' = b
    /\ UNCHANGED <<formState, errorState, formInvalid, didAttemptSubmit,
                   globalFormError, effectPending, errorQueue, crashed, lastAction,
                   passes, calls, inHandler, nameQuantifier>>

SetDidAttemptSubmit(b) ==
    /\ ~crashed
    /\ didAttemptSubmit' = b
    /\ UNCHANGED <<formState, errorState, formInvalid, loading,
                   globalFormError, effectPending, errorQueue, crashed, lastAction,
                   passes, calls, inHandler, nameQuantifier>>

SetGlobalFormError(e) ==
    /\ ~crashed
    /\ globalFormError' = e
    /\ UNCHANGED <<formState, errorState, formInvalid, loading,
                   didAttemptSubmit, effectPending, errorQueue, crashed, lastAction,
                   passes, calls, inHandler, nameQuantifier>>

Next ==
    \/ \E action \in FormActions(InitialKeys) : DispatchFormAction(action)
    \/ \E action \in FormActions(InitialKeys) : DispatchFormActionAgain(action)
    \/ ValidateEffect
    \/ RenderErrors

\* a caller that leaves loading, didAttemptSubmit and globalFormError alone
Spec == Init /\ [][Next]_vars

PlainNext ==
    \/ \E action \in PlainActions(InitialKeys) : DispatchFormAction(action)
    \/ \E action \in PlainActions(InitialKeys) : DispatchFormActionAgain(action)
    \/ ValidateEffect
    \/ RenderErrors

\* React runs a scheduled effect and renders a queued update; the caller
\* dispatches the values that need no trimming
FairSpec ==
    Init /\ [][PlainNext]_vars /\ WF_vars(ValidateEffect) /\ WF_vars(RenderErrors)

HookNext ==
    \/ \E action \in PlainActions(InitialKeys) : DispatchFormAction(action)
    \/ \E action \in PlainActions(InitialKeys) : DispatchFormActionAgain(action)
    \/ ValidateEffect
    \/ RenderErrors
    \/ \E b \in BOOLEAN : SetLoading(b)
    \/ \E b \in BOOLEAN : SetDidAttemptSubmit(b)
    \/ \E e \in GlobalErrors : SetGlobalFormError(e)

\* a caller that also uses the three setters
HookSpec == Init /\ [][HookNext]_vars

(***************************************************************************)
(* Properties.  The vocabulary below restates the terms of the properties  *)
(* on the stores themselves, without the operators of the validation pass. *)
(***************************************************************************)
Configured(k) == k \in DOMAIN formState /\ "validation" \in DOMAIN formState[k]

MarkedOptional(k) ==
    /\ Configured(k)
    /\ "optional" \in DOMAIN formState[k].validation
    /\ formState[k].validation.optional = TRUE

TypeOf(k) ==
    IF Configured(k) /\ "type" \in DOMAIN formState[k].validation
    THEN formState[k].validation.type
    ELSE "undefined"

HasErrorEntry(k) == k \in DOMAIN errorState

\* the message a failing check reports: customError when the field has a
\* non-empty one, the built-in message otherwise
Message(k, builtIn) ==
    IF /\ "customError" \in DOMAIN formState[k].validation
       /\ formState[k].validation.customError # ""
    THEN formState[k].validation.customError
    ELSE builtIn

\* the last validation pass has completed and its errors are rendered
Settled == ~crashed /\ ~effectPending /\ errorQueue = <<>>

\* C1: in every reachable state the field store and the error store have
\* the same set of keys.
C1_SameKeys == DOMAIN formState = DOMAIN errorState

\* C2: the error entry of a field marked optional is the empty string in
\* every reachable state, whatever its type and value.
C2_OptionalAlwaysValid ==
    \A k \in DOMAIN formState :
        MarkedOptional(k) => HasErrorEntry(k) /\ errorState[k] = ""

\* an optional email field holds a non-empty, badly formatted value that was
\* dispatched to it, and its pass has completed
C2_Witness ==
    /\ Settled
    /\ \E k \in DOMAIN formState :
          /\ MarkedOptional(k)
          /\ TypeOf(k) = "email"
          /\ lastAction.type = "UPDATE_VALUE"
          /\ lastAction.field = k
          /\ Len(formState[k].value) = 5
          /\ errorState[k] = ""

\* C3: in every reachable state formInvalid is true exactly when some field
\* key has a non-empty error entry and its field is not marked optional.
C3_FormInvalidDerived ==
    formInvalid <=>
        \E k \in DOMAIN formState :
            HasErrorEntry(k) /\ errorState[k] # "" /\ ~MarkedOptional(k)

\* the one update that the last handler has dispatched so far names a
\* configured, required field f; before it f was the only required field
\* with an error (the error store still holds the entries of before the
\* update); the new value of f passes f's validator
C4_LastInvalidFieldFixed ==
    /\ ~crashed
    /\ calls = "one"
    /\ lastAction.type = "UPDATE_VALUE"
    /\ Configured(lastAction.field)
    /\ ~MarkedOptional(lastAction.field)
    /\ {k \in DOMAIN errorState : errorState[k] # "" /\ ~MarkedOptional(k)}
          = {lastAction.field}
    /\ validateByType(formState, lastAction.field).error = ""

\* no required confirmation field differs from the field keyed "password"
C4_ConfirmationsMatch ==
    \A k \in DOMAIN formState :
        (TypeOf(k) = "passwordConfirmation" /\ ~MarkedOptional(k))
            => /\ Configured("password")
               /\ formState[k].value = formState["password"].value

\* C4 as stated: when the only invalid required field is given a value that
\* passes its validator, the render that follows the validation pass leaves
\* formInvalid false.
C4_AsStated ==
    [][(C4_LastInvalidFieldFixed /\ errorQueue # <<>> /\ errorQueue' = <<>>)
          => ~formInvalid']_vars

\* C4, amended: when the only invalid required field is given a value that
\* passes its validator, and no required passwordConfirmation field differs
\* from the "password" field after the update, formInvalid becomes false
\* with the render of the errors of the triggered pass, which eventually
\* happens unless the handler dispatches a second action, and it stays
\* false as long as the field store is not updated again.
C4_FixingLastInvalidField ==
    /\ (C4_LastInvalidFieldFixed /\ C4_ConfirmationsMatch)
          ~> ((~formInvalid /\ errorQueue = <<>>) \/ calls = "several")
    /\ [][(C4_LastInvalidFieldFixed /\ C4_ConfirmationsMatch
              /\ errorQueue # <<>> /\ errorQueue' = <<>>)
             => ~formInvalid']_vars
    /\ [][(Settled /\ ~formInvalid /\ formState' = formState)
             => ~formInvalid']_vars

\* the pass has run for an update that made a mismatching confirmation, the
\* only invalid field, equal to the password
C4_Witness ==
    /\ C4_LastInvalidFieldFixed
    /\ C4_ConfirmationsMatch
    /\ errorQueue # <<>>
    /\ formInvalid
    /\ TypeOf(lastAction.field) = "passwordConfirmation"
    /\ Len(formState["password"].value) = 6

\* a step in which a handler dispatches a field action of the given type
DispatchStep(type) ==
    ~crashed /\ effectPending' /\ inHandler' /\ lastAction'.type = type

AttributesOf(k) == IF k \in DOMAIN formState THEN DOMAIN formState[k] ELSE {}

\* t is v without the whitespace at its two ends
Stripped(t, v) ==
    \E i, j \in 0..Len(v) :
        /\ i + j <= Len(v)
        /\ t = SubSeq(v, i + 1, Len(v) - j)
        /\ \A n \in 1..i : v[n] \in {" ", "\t"}
        /\ \A n \in (Len(v) - j + 1)..Len(v) : v[n] \in {" ", "\t"}
        /\ t # <<>> => t[1] \notin {" ", "\t"} /\ t[Len(t)] \notin {" ", "\t"}

\* every attribute of field k but attr is what it was, and so is every
\* other field
FrameOf(k, attr) ==
    /\ DOMAIN formState' = DOMAIN formState \cup {k}
    /\ DOMAIN formState'[k] = AttributesOf(k) \cup {attr}
    /\ \A a \in AttributesOf(k) \ {attr} : formState'[k][a] = formState[k][a]
    /\ \A g \in DOMAIN formState \ {k} : formState'[g] = formState[g]

\* C5: UPDATE_VALUE {f, v} stores v without its leading and trailing
\* whitespace as the value of f and changes neither another attribute of f
\* nor another field.
C5_UpdateValueFrame ==
    [][DispatchStep("UPDATE_VALUE")
          => /\ Stripped(formState'[lastAction'.field].value, lastAction'.value)
             /\ FrameOf(lastAction'.field, "value")]_vars

\* a value with whitespace on both sides was stored, trimmed, in a blurred
\* field
C5_Witness ==
    /\ effectPending
    /\ lastAction.type = "UPDATE_VALUE"
    /\ Len(lastAction.value) = 8
    /\ lastAction.value[1] = " "
    /\ lastAction.value[8] = "\t"
    /\ Configured(lastAction.field)
    /\ formState[lastAction.field].value = SubSeq(lastAction.value, 2, 7)
    /\ "blurred" \in DOMAIN formState[lastAction.field]
    /\ formState[lastAction.field].blurred

\* C6: BLUR_INPUT {f} sets the blurred flag of f and changes neither another
\* attribute of f nor another field.
C6_BlurInputFrame ==
    [][DispatchStep("BLUR_INPUT")
          => /\ formState'[lastAction'.field].blurred = TRUE
             /\ FrameOf(lastAction'.field, "blurred")]_vars

\* a field holding a non-empty value has just been blurred
C6_Witness ==
    /\ effectPending
    /\ lastAction.type = "BLUR_INPUT"
    /\ Configured(lastAction.field)
    /\ formState[lastAction.field].blurred = TRUE
    /\ Len(formState[lastAction.field].value) = 6
    /\ \E g \in DOMAIN formState : "blurred" \notin DOMAIN formState[g]

\* C7: an action of a type the reducers do not know leaves the field store
\* as it is and, when no error update waits, the error store as well, and
\* errorsReducer returns the error store it is given.
C7_UnknownActionIdentity ==
    [][lastAction'.type \notin {"UPDATE_VALUE", "BLUR_INPUT"}
          => /\ formState' = formState
             /\ Settled => /\ errorState' = errorState
                           /\ errorsReducer(errorState', lastAction') = errorState']_vars

\* an unknown action was dispatched on a form with a blurred field and an
\* error
C7_Witness ==
    /\ lastAction.type = "RESET"
    /\ formInvalid
    /\ \E k \in DOMAIN formState :
          "blurred" \in DOMAIN formState[k] /\ formState[k].blurred

\* the configured fields of a validation type
FieldsOfType(type) == {k \in DOMAIN formState : Configured(k) /\ TypeOf(k) = type}

\* the value of confirmation field k is that of the field keyed "password"
EqualsPassword(k) ==
    /\ "password" \in DOMAIN formState
    /\ "value" \in DOMAIN formState["password"]
    /\ formState[k].value = formState["password"].value

\* C8 as stated: after a validation pass the error entry of every
\* passwordConfirmation field is empty exactly when its value equals the
\* value of the field keyed "password", and non-empty when there is no such
\* field.
C8_AsStated ==
    Settled =>
        \A k \in FieldsOfType("passwordConfirmation") :
            /\ errorState[k] = "" <=> EqualsPassword(k)
            /\ "password" \notin DOMAIN formState => errorState[k] # ""

\* C8, amended: after a validation pass the error entry of every
\* passwordConfirmation field that is not optional is empty exactly when its
\* value equals the value of the field keyed "password"; otherwise, and
\* always when there is no such field, it is customError or "Passwords do
\* not match".
C8_ConfirmationAgainstPassword ==
    Settled =>
        \A k \in FieldsOfType("passwordConfirmation") :
            ~MarkedOptional(k) =>
                /\ errorState[k] = "" <=> EqualsPassword(k)
                /\ ~EqualsPassword(k)
                      => errorState[k] = Message(k, "Passwords do not match")
                /\ "password" \notin DOMAIN formState => errorState[k] # ""

\* a form without a "password" field: the required confirmation has been
\* given a value and keeps its error
C8_Witness ==
    /\ Settled
    /\ "password" \notin DOMAIN formState
    /\ lastAction.type = "UPDATE_VALUE"
    /\ \E k \in FieldsOfType("passwordConfirmation") :
          /\ ~MarkedOptional(k)
          /\ lastAction.field = k
          /\ Len(formState[k].value) = 6
          /\ errorState[k] = "Passwords do not match"

\* C9: after a validation pass a required password field has an empty error
\* entry exactly when its value has 6 to 128 characters; otherwise the entry
\* is customError or "Please provide a password of at least 6 characters".
C9_PasswordLength ==
    Settled =>
        \A k \in FieldsOfType("password") :
            ~MarkedOptional(k) =>
                IF Len(formState[k].value) >= 6 /\ Len(formState[k].value) <= 128
                THEN errorState[k] = ""
                ELSE errorState[k] =
                        Message(k, "Please provide a password of at least 6 characters")

\* a required password field was given 128 characters and is valid
C9_Witness ==
    /\ Settled
    /\ lastAction.type = "UPDATE_VALUE"
    /\ \E k \in FieldsOfType("password") :
          /\ ~MarkedOptional(k)
          /\ lastAction.field = k
          /\ Len(formState[k].value) = 128
          /\ errorState[k] = ""

\* C10: after a validation pass a required email field has the error "Please
\* provide an email" for the empty value, customError or "Please provide a
\* valid email" for a non-empty value the format check rejects, and the
\* empty error for a value the format check accepts.
C10_EmailOutcome ==
    Settled =>
        \A k \in FieldsOfType("email") :
            ~MarkedOptional(k) =>
                errorState[k] =
                    IF formState[k].value = <<>> THEN "Please provide an email"
                    ELSE IF isEmail(formState[k].value) THEN ""
                    ELSE Message(k, "Please provide a valid email")

\* an email field with a custom message was given whitespace only: the
\* stored value is empty and the error is the fixed one
C10_Witness ==
    /\ Settled
    /\ lastAction.type = "UPDATE_VALUE"
    /\ lastAction.value = <<" ", "\t">>
    /\ \E k \in FieldsOfType("email") :
          /\ ~MarkedOptional(k)
          /\ lastAction.field = k
          /\ "customError" \in DOMAIN formState[k].validation
          /\ formState[k].validation.customError = "Bad email"
          /\ formState[k].value = <<>>
          /\ errorState[k] = "Please provide an email"

\* the first character is a letter and every following one a letter or one
\* of the marks
NameShaped(value, marks) ==
    /\ value # <<>>
    /\ value[1] \in {"a", "B"}
    /\ \A i \in 2..Len(value) : value[i] \in {"a", "B"} \cup marks

\* the error entry of name field k is the one the property gives it
NameOutcome(k, marks, emptyMessage) ==
    IF formState[k].value = <<>>
    THEN errorState[k] = Message(k, emptyMessage)
    ELSE errorState[k] = "" <=> NameShaped(formState[k].value, marks)

\* C11: after a validation pass a required firstName (lastName) field with a
\* non-empty value has the empty error exactly when the value is a letter
\* followed by zero or more letters, spaces, apostrophes, periods or hyphens
\* (or commas, for lastName); the empty value gives customError or "Please
\* provide a first name." ("Please provide a last name.").
C11_NamePattern ==
    Settled =>
        /\ \A k \in FieldsOfType("firstName") :
              ~MarkedOptional(k)
                  => NameOutcome(k, {" ", "'", ".", "-"}, "Please provide a first name.")
        /\ \A k \in FieldsOfType("lastName") :
              ~MarkedOptional(k)
                  => NameOutcome(k, {" ", "'", ".", "-", ","}, "Please provide a last name.")

\* C12: the validation pass never raises an error, and after it a field
\* whose validation type is none of the five checked types has the empty
\* error.
C12_ValidationTotal ==
    /\ ~crashed
    /\ Settled =>
          \A k \in DOMAIN formState :
              TypeOf(k) \notin {"email", "password", "passwordConfirmation",
                                "firstName", "lastName"}
                  => HasErrorEntry(k) /\ errorState[k] = ""

\* C13: no step adds a key to the field store or removes one from it.
C13_KeysFixed == [][DOMAIN formState' = DOMAIN formState]_vars

\* the part of the state the setters do not write
FormPart ==
    <<formState, errorState, formInvalid, effectPending, errorQueue, crashed,
      lastAction, passes>>

CallerFlags == <<loading, didAttemptSubmit, globalFormError>>

\* C14: loading, didAttemptSubmit and globalFormError start as false, false
\* and null, and a step that changes one of them is a call of a setter: it
\* is no dispatch, validation pass or render of the error store.
C14_FlagsOnlyBySetters ==
    /\ CallerFlags = <<FALSE, FALSE, Null>>
    /\ [][CallerFlags' # CallerFlags => FormPart' = FormPart]_vars

\* a value was dispatched after the caller had set the three flags, and they
\* are as the caller left them
C14_Witness ==
    /\ effectPending
    /\ lastAction.type = "UPDATE_VALUE"
    /\ Len(formState[lastAction.field].value) = 6
    /\ CallerFlags = <<TRUE, TRUE, "Network error">>

\* C15 as stated: every dispatched UPDATE_VALUE or BLUR_INPUT makes a
\* field-store update of its own, with a validation pass of its own: the
\* pass that is scheduled answers one dispatched action.
C15_AsStated == effectPending => calls # "several"

\* C15, amended: the UPDATE_VALUE and BLUR_INPUT actions that one handler
\* dispatches make one field-store update, and every field-store update is
\* followed by exactly one validation pass: none has run while the effect is
\* scheduled, and one has run, and no second one follows, from then on
\* until the next update.
C15_OnePassPerUpdate ==
    /\ effectPending => passes = 0
    /\ ~effectPending => passes = 1

\* one pass has run for a handler that dispatched a value to each of the
\* two fields, and its errors are rendered
C15_Witness ==
    /\ Settled
    /\ calls = "several"
    /\ lastAction.type = "UPDATE_VALUE"
    /\ \A k \in DOMAIN formState : Len(formState[k].value) = 6
    /\ passes = 1

\* nothing waits: no pass is scheduled and no error dispatch is queued
Quiet == ~effectPending /\ errorQueue = <<>>

\* a step that is a validation pass, or the render of the error updates of
\* a pass and of nothing else
PassStep == passes' = passes + 1
ErrorRenderStep == errorQueue # <<>> /\ errorQueue' = <<>> /\ passes' = passes

\* C16: a validation pass and the render of its error updates leave the
\* field store as it is and schedule no pass, and once the caller dispatches
\* no more, a scheduled pass leads to a state where nothing waits.
C16_PassesTerminate ==
    /\ [][(PassStep \/ ErrorRenderStep)
             => formState' = formState /\ ~effectPending']_vars
    /\ <>[][PassStep \/ ErrorRenderStep]_vars => (effectPending ~> Quiet)

\* the errors of an update have been rendered, formInvalid is set, and
\* nothing waits
C16_Witness ==
    /\ Quiet
    /\ ~crashed
    /\ lastAction.type = "UPDATE_VALUE"
    /\ formInvalid
    /\ \E k \in DOMAIN errorState : errorState[k] # ""
    /\ passes = 1

\* the dispatches a pass over the field store makes for key k
DispatchesFor(k) ==
    {i \in DOMAIN validate(formState) : validate(formState)[i].field = k}

\* C17: a validation pass issues exactly one UPDATE_ERROR dispatch for every
\* key of the field store it runs on.
C17_OneDispatchPerKey ==
    [][(effectPending /\ ~effectPending')
          => \A k \in DOMAIN formState : Cardinality(DispatchesFor(k)) = 1]_vars

\* C18: passes do not overlap (no pass is scheduled while the dispatches of
\* another wait), and the dispatches that wait are those computed from the
\* field store as the triggering update left it.
C18_PassesSerialized ==
    /\ ~(effectPending /\ errorQueue # <<>>)
    /\ errorQueue # <<>> =>
          /\ Len(errorQueue) = Cardinality(DOMAIN formState)
          /\ \A i \in DOMAIN errorQueue :
                errorQueue[i] = validateField(formState, errorQueue[i].field)

\* the pass of an update of "password" has queued the error of the
\* confirmation field, judged against the new password
C18_Witness ==
    /\ errorQueue # <<>>
    /\ lastAction.type = "UPDATE_VALUE"
    /\ lastAction.field = "password"
    /\ Len(formState["password"].value) = 6
    /\ Configured("confirm")
    /\ ~MarkedOptional("confirm")
    /\ errorState["confirm"] = ""
    /\ \E i \in DOMAIN errorQueue :
          errorQueue[i] = [type |-> "UPDATE_ERROR", field |-> "confirm",
                           error |-> "Passwords do not match"]

\* C19: the error store starts with every entry empty; without any dispatch
\* a first pass runs, and when it is rendered each entry is the outcome of
\* the field's validator on the initial value, also when the first handler
\* of the caller runs before that render.
C19_InitialPass ==
    /\ \A k \in DOMAIN errorState : errorState[k] = ""
    /\ [](lastAction = NoAction /\ Settled
             => \A k \in DOMAIN formState :
                   errorState[k] = validateField(formState, k).error)
    /\ [][(lastAction = NoAction /\ lastAction' # NoAction)
             => \A k \in DOMAIN formState :
                   errorState'[k] = validateField(formState, k).error]_vars
    /\ (lastAction = NoAction) ~> (Settled \/ lastAction # NoAction)

\* the first pass has given the untrimmed initial email its error
C19_Witness ==
    /\ Settled
    /\ lastAction = NoAction
    /\ formInvalid
    /\ Configured("email")
    /\ formState["email"].value = <<" ", "a", "@", "a", ".", "a", "a">>
    /\ errorState["email"] = "Bad email"

\* C20: when the pass of the latest field-store change has completed, every
\* error entry is the outcome of the field's validator on the current value,
\* a required confirmation being valid exactly when it equals the current
\* value of "password".
C20_ErrorsFollowFields ==
    Settled =>
        \A k \in DOMAIN formState :
            /\ HasErrorEntry(k)
            /\ errorState[k] = validateField(formState, k).error
            /\ (TypeOf(k) = "passwordConfirmation" /\ ~MarkedOptional(k))
                  => (errorState[k] = "" <=> EqualsPassword(k))

\* an update of "password" alone has made the confirmation field valid
C20_Witness ==
    /\ Settled
    /\ lastAction.type = "UPDATE_VALUE"
    /\ lastAction.field = "password"
    /\ Configured("confirm")
    /\ ~MarkedOptional("confirm")
    /\ Len(formState["confirm"].value) = 6
    /\ errorState["confirm"] = ""
    /\ ~formInvalid

\* the step is the dispatch, by a handler that dispatches nothing else, of
\* BLUR_INPUT on a field of the form, or belongs to the pass that such a
\* dispatch has triggered
BlurOfExistingField ==
    /\ ~crashed
    /\ calls' = "one"
    /\ lastAction'.type = "BLUR_INPUT"
    /\ Configured(lastAction'.field)

\* C21: from a state where nothing waits, BLUR_INPUT on a field of the form
\* schedules a pass, and neither the dispatch nor the pass and the render of
\* its error updates change an error entry or formInvalid.
C21_BlurKeepsErrors ==
    /\ [][(BlurOfExistingField /\ Settled /\ passes' = 0)
             => /\ effectPending'
                /\ errorState' = errorState
                /\ formInvalid' = formInvalid]_vars
    /\ [][(BlurOfExistingField /\ (PassStep \/ ErrorRenderStep))
             => errorState' = errorState /\ formInvalid' = formInvalid]_vars

\* the pass of a blur of an invalid field has completed, the error of the
\* field and formInvalid still set
C21_Witness ==
    /\ Settled
    /\ passes = 1
    /\ lastAction.type = "BLUR_INPUT"
    /\ Configured(lastAction.field)
    /\ formState[lastAction.field].blurred = TRUE
    /\ errorState[lastAction.field] # ""
    /\ formInvalid

\* field f carries a true blurred flag in the given field store
IsBlurred(fields, f) ==
    /\ f \in DOMAIN fields
    /\ "blurred" \in DOMAIN fields[f]
    /\ fields[f].blurred = TRUE

\* C22: a field whose blurred flag is true keeps it true in every later
\* state, whatever action is dispatched on whatever field.
C22_BlurredMonotone ==
    [][\A f \in DOMAIN formState :
          IsBlurred(formState, f) => IsBlurred(formState', f)]_vars

\* a field of the README form, blurred by BLUR_INPUT, has then been given a
\* value and is still blurred
C22_Witness ==
    /\ DOMAIN formState = {"email", "password"}
    /\ DOMAIN formState["password"] = {"value", "validation"}
    /\ lastAction.type = "UPDATE_VALUE"
    /\ lastAction.field = "email"
    /\ Len(formState["email"].value) = 6
    /\ IsBlurred(formState, "email")

====
